---- MODULE Spec2Model ----
(***************************************************************************)
(* Model of helpdesk/libs/notification.py: the four notification classes   *)
(* (MailNotification, WebhookNotification, LarkWebhookNotification,        *)
(* WebhookEventNotification), their render functions and the steps of      *)
(* their send coroutines.                                                  *)
(*                                                                         *)
(* Text is a sequence of string tokens, so that concatenation, ','.join    *)
(* and str.split are computed and not assumed.  One behaviour is one       *)
(* Notification object: Init is the object after __init__(phase, ticket)   *)
(* together with the configuration and the answers the collaborators       *)
(* (policy engine, e-mail directory, template engine) give for it; the     *)
(* outcome of each network call is chosen when the call is made.           *)
(***************************************************************************)
EXTENDS Integers, Sequences, FiniteSets, TLC

VARIABLES
    cls,        \* class of the Notification object
    phase,      \* self.phase.value
    ticket,     \* self.ticket
    env,        \* answers of the external collaborators for this ticket
    cfg,        \* helpdesk.config values
    pc,         \* position in send(): a step name, "returned" or "raised"
    addrs,      \* local addrs of MailNotification.send
    title,      \* rendered title
    content,    \* rendered content
    msg,        \* payload built for the POST
    resp,       \* response of the POST
    smtp,       \* SMTP session: "none", "open", "closed"
    calls,      \* number of calls made to each collaborator
    error       \* the exception in flight or raised, "" when none

vars == <<cls, phase, ticket, env, cfg, pc, addrs, title, content, msg, resp, smtp, calls, error>>

(* ---------------------------- bounds ----------------------------------- *)
MaxCcs == 1
MaxRuleApprovers == 1
MaxApproversLen == 2
MaxPieces == 2
MaxNodes == 3
MaxParams == 1

(* --------------------------- text helpers ------------------------------ *)
SeqsUpTo(S, n) == UNION {[1..k -> S] : k \in 0..n}

RECURSIVE Concat(_)
\* ''.join(list)
Concat(list) == IF list = <<>> THEN <<>> ELSE Head(list) \o Concat(Tail(list))

RECURSIVE Join(_, _)
\* sep.join(list)
Join(list, sep) ==
    IF list = <<>> THEN <<>>
    ELSE IF Len(list) = 1 THEN Head(list)
    ELSE Head(list) \o <<sep>> \o Join(Tail(list), sep)

RECURSIVE Split(_, _)
\* s.split(sep): always at least one segment, '' included
Split(s, sep) ==
    IF \A i \in 1..Len(s) : s[i] # sep THEN <<s>>
    ELSE LET i == CHOOSE j \in 1..Len(s) : s[j] = sep /\ \A k \in 1..(j-1) : s[k] # sep
         IN  <<SubSeq(s, 1, i-1)>> \o Split(SubSeq(s, i+1, Len(s)), sep)

\* mutant of Filter: the test "if addr" is missing
FilterNothing(list) == list

RECURSIVE Filter(_)
\* (addr for addr in list if addr)
Filter(list) ==
    IF list = <<>> THEN <<>>
    ELSE IF Head(list) # <<>> THEN <<Head(list)>> \o Filter(Tail(list))
    ELSE Filter(Tail(list))

(* ---------------------------- domains ---------------------------------- *)
\* TicketPhase values; "close" stands for every phase without a branch of its own
Phases == {"request", "approval", "mark", "close"}

Users == {"u1", "u2"}

\* the address the directory holds for a user; <<>> is the empty / None answer
Address(u) == IF u = "u1" THEN <<"a">> ELSE <<"b">>
EmailMaps == {m \in [Users -> {<<>>, <<"a">>, <<"b">>}] : \A u \in Users : m[u] \in {<<>>, Address(u)}}

NodeNames == {"A", "B", "C"}
NodeType(n) == IF n = "B" THEN "cc" ELSE "approval"
NodeSeqs == {[i \in 1..Len(s) |-> [name |-> s[i], node_type |-> NodeType(s[i])]] :
                s \in SeqsUpTo(NodeNames, MaxNodes)}

\* output of the template engine: the template is missing, the text is not
\* well-formed markup, or a root element with child elements.  text = <<>> is
\* ElementTree's None for an element without text.
Pieces == [tag : {"title", "content", "p"}, text : {<<>>, <<"x">>}]
GoodMessage == [kind |-> "xml", children |-> <<[tag |-> "title", text |-> <<"x">>],
                                                 [tag |-> "content", text |-> <<"x">>]>>]
Messages == {[kind |-> "missing", children |-> <<>>], [kind |-> "unparsable", children |-> <<>>]}
            \cup {[kind |-> "xml", children |-> c] : c \in SeqsUpTo(Pieces, MaxPieces)}

DefaultTicket ==
    [submitter |-> "u1", ccs |-> <<>>, title |-> "T", reason |-> "r1", status |-> "open",
     created_at |-> "t0", confirmed_by |-> "u2", is_approved |-> "None",
     is_auto_approved |-> FALSE, web_url |-> "W", params |-> <<>>, color |-> "#000",
     annotation |-> [current_node |-> "A", nodes |-> <<>>, reason |-> "r1"]]

DefaultEnv ==
    [policy_approvers |-> <<>>, rule_approvers |-> <<>>,
     emails |-> [u \in Users |-> Address(u)], message |-> GoodMessage]

DefaultCfg ==
    [ADMIN_EMAIL_ADDRS |-> <<"m">>, WEBHOOK_URL |-> "url", LARK_WEBHOOK_URL |-> "url",
     WEBHOOK_EVENT_URL |-> "url", SMTP_SSL |-> FALSE, SMTP_CREDENTIALS |-> <<>>]

NoCalls == [lookup |-> 0, render |-> 0, connect |-> 0, login |-> 0, send_message |-> 0,
            quit |-> 0, post |-> 0, report |-> 0]

NoMsg == [kind |-> "none"]
NoResp == [transport |-> "none", status_code |-> 0, body |-> "none"]

\* responses of a POST: the transport fails (connection refused, timeout), or a
\* response with a status code and a body that is not JSON, JSON without a
\* StatusCode field, or JSON with StatusCode 0 or 1
StatusCodes == {200, 204, 404, 500}
Bodies == {"not_json", "no_field", "sc0", "sc1"}
Responses == {[transport |-> "failed", status_code |-> 0, body |-> "none"]}
             \cup [transport : {"ok"}, status_code : StatusCodes, body : Bodies]

(* ------------------------ Notification (base) -------------------------- *)
get_user_email(u) == env.emails[u]

RECURSIVE PieceTexts(_, _)
\* (piece.text for piece in tree.findall(tag)): direct children with that tag
PieceTexts(children, tag) ==
    IF children = <<>> THEN <<>>
    ELSE (IF Head(children).tag = tag THEN <<Head(children).text>> ELSE <<>>)
         \o PieceTexts(Tail(children), tag)

RenderRaise(e) == [ok |-> FALSE, err |-> e, title |-> <<>>, content |-> <<>>]

\* Notification.render applied to the template engine's output
Render(message) ==
    IF message.kind = "missing" THEN RenderRaise("TemplateNotFound")
    ELSE IF message.kind = "unparsable" THEN RenderRaise("ParseError")
    ELSE LET titles == PieceTexts(message.children, "title")
             contents == PieceTexts(message.children, "content")
         IN  IF \E i \in 1..Len(titles) : titles[i] = <<>> THEN RenderRaise("TypeError")
             ELSE IF \E i \in 1..Len(contents) : contents[i] = <<>> THEN RenderRaise("TypeError")
             ELSE [ok |-> TRUE, err |-> "", title |-> Concat(titles), content |-> Concat(contents)]

(* -------------------------- MailNotification --------------------------- *)
EmailsOf(users) == [i \in 1..Len(users) |-> get_user_email(users[i])]

SubmitterAddrs ==
    IF phase \in {"approval", "mark"} THEN <<get_user_email(ticket.submitter)>> ELSE <<>>

\* the list email_addrs before the final join
EmailAddrList(approvers) ==
    <<cfg.ADMIN_EMAIL_ADDRS>> \o EmailsOf(ticket.ccs) \o Split(approvers, ",")
    \o EmailsOf(env.rule_approvers) \o SubmitterAddrs

get_mail_addrs(approvers) == Join(Filter(EmailAddrList(approvers)), ",")

Raise(e) == pc' = "raised" /\ error' = e

Called(what) == calls' = [calls EXCEPT ![what] = @ + 1]

\* addrs = await self.get_mail_addrs(): the policy lookup or the rule-action
\* lookup may fail
MailGetMailAddrs ==
    /\ cls = "MailNotification" /\ pc = "start"
    /\ Called("lookup")
    /\ \E outcome \in {"ok", "PolicyLookupError", "RuleActionError"} :
         IF outcome = "ok"
         THEN addrs' = get_mail_addrs(env.policy_approvers) /\ pc' = "render" /\ UNCHANGED error
         ELSE Raise(outcome) /\ UNCHANGED addrs
    /\ UNCHANGED <<cls, phase, ticket, env, cfg, title, content, msg, resp, smtp>>

\* mutant of MailRender: a failure of render is swallowed and send goes on
MailRenderSwallows ==
    /\ cls = "MailNotification" /\ pc = "render"
    /\ Called("render")
    /\ LET r == Render(env.message)
       IN  /\ title' = r.title /\ content' = r.content /\ pc' = "connect"
           /\ error' = r.err
    /\ UNCHANGED <<cls, phase, ticket, env, cfg, addrs, msg, resp, smtp>>

\* title, content = self.render()
MailRender ==
    /\ cls = "MailNotification" /\ pc = "render"
    /\ Called("render")
    /\ LET r == Render(env.message)
       IN  IF r.ok
           THEN title' = r.title /\ content' = r.content /\ pc' = "connect" /\ UNCHANGED error
           ELSE Raise(r.err) /\ UNCHANGED <<title, content>>
    /\ UNCHANGED <<cls, phase, ticket, env, cfg, addrs, msg, resp, smtp>>

\* smtp = smtplib.SMTP_SSL(...) if SMTP_SSL else smtplib.SMTP(...)
MailConnect ==
    /\ cls = "MailNotification" /\ pc = "connect"
    /\ Called("connect")
    /\ \E ok \in BOOLEAN :
         IF ok THEN smtp' = "open" /\ pc' = "login" /\ UNCHANGED error
         ELSE Raise("SMTPConnectError") /\ UNCHANGED smtp
    /\ UNCHANGED <<cls, phase, ticket, env, cfg, addrs, title, content, msg, resp>>

\* if SMTP_CREDENTIALS: user, password = ...split(':'); smtp.login(user, password)
MailLogin ==
    /\ cls = "MailNotification" /\ pc = "login"
    /\ IF cfg.SMTP_CREDENTIALS = <<>>
       THEN pc' = "send_message" /\ UNCHANGED <<calls, error>>
       ELSE IF Len(Split(cfg.SMTP_CREDENTIALS, ":")) # 2
       THEN Raise("ValueError") /\ UNCHANGED calls
       ELSE /\ Called("login")
            /\ \E ok \in BOOLEAN :
                 IF ok THEN pc' = "send_message" /\ UNCHANGED error
                 ELSE Raise("SMTPAuthenticationError")
    /\ UNCHANGED <<cls, phase, ticket, env, cfg, addrs, title, content, msg, resp, smtp>>

\* msg = EmailMessage() ...; try: smtp.send_message(msg)
MailSendMessage ==
    /\ cls = "MailNotification" /\ pc = "send_message"
    /\ Called("send_message")
    /\ msg' = [kind |-> "mail", Subject |-> <<"prefix">> \o title, To |-> addrs, body |-> content]
    /\ \E ok \in BOOLEAN : error' = IF ok THEN "" ELSE "SMTPException"
    /\ pc' = "quit"
    /\ UNCHANGED <<cls, phase, ticket, env, cfg, addrs, title, content, resp, smtp>>

\* finally: smtp.quit(), then the exception of send_message, if any, goes on
MailQuit ==
    /\ cls = "MailNotification" /\ pc = "quit"
    /\ Called("quit")
    /\ smtp' = "closed"
    /\ pc' = IF error = "" THEN "returned" ELSE "raised"
    /\ UNCHANGED <<cls, phase, ticket, env, cfg, addrs, title, content, msg, resp, error>>

(* ------------------------- WebhookNotification ------------------------- *)
get_color ==
    IF phase # "request" THEN ticket.color
    ELSE IF ticket.is_approved = "True" THEN "#17a2b8"
    ELSE "#ffc107"

WebhookConfigured == cfg.WEBHOOK_URL # ""

\* if not WEBHOOK_URL: return; title, content = self.render(); msg = {...}
WebhookRender ==
    /\ cls = "WebhookNotification" /\ pc = "start"
    /\ IF ~WebhookConfigured
       THEN pc' = "returned" /\ UNCHANGED <<title, content, msg, calls, error>>
       ELSE /\ Called("render")
            /\ LET r == Render(env.message)
               IN  IF r.ok
                   THEN /\ title' = r.title /\ content' = r.content
                        /\ msg' = [kind |-> "webhook", from |-> "helpdesk", title |-> r.title,
                                   link |-> ticket.web_url, color |-> get_color,
                                   text |-> r.title \o <<"\n", ticket.web_url, "\n">> \o r.content,
                                   markdown |-> r.content]
                        /\ pc' = "post" /\ UNCHANGED error
                   ELSE Raise(r.err) /\ UNCHANGED <<title, content, msg>>
    /\ UNCHANGED <<cls, phase, ticket, env, cfg, addrs, resp, smtp>>

\* mutant of RaiseForStatus: the status is not looked at
RaiseForStatusNever(status) == FALSE

\* Response.raise_for_status: HTTPError for a 4xx or 5xx status
RaiseForStatus(status) == status >= 400 /\ status < 600

\* r = requests.post(WEBHOOK_URL, json=msg, timeout=3); r.raise_for_status()
WebhookPost ==
    /\ cls = "WebhookNotification" /\ pc = "post"
    /\ Called("post")
    /\ \E r \in Responses :
         /\ resp' = r
         /\ IF r.transport = "failed" THEN Raise("ConnectionError")
            ELSE IF RaiseForStatus(r.status_code) THEN Raise("HTTPError")
            ELSE pc' = "returned" /\ UNCHANGED error
    /\ UNCHANGED <<cls, phase, ticket, env, cfg, addrs, title, content, msg, smtp>>

(* ----------------------- LarkWebhookNotification ----------------------- *)
RECURSIVE ParamLines(_)
\* for name, value in self.ticket.params.items(): content += f"  {name}: {value}\n"
ParamLines(params) ==
    IF params = <<>> THEN <<>>
    ELSE <<"  ", Head(params).name, ": ", Head(params).value, "\n">> \o ParamLines(Tail(params))

LarkHeader ==
    <<"[Ticket url](", ticket.web_url, ")\n", "Parameters:\n">> \o ParamLines(ticket.params)
    \o <<"Request time: ", ticket.created_at, "\n">>

\* LarkWebhookNotification.render, the content
LarkContent ==
    LarkHeader \o
    (IF phase = "request"
     THEN <<"Reason: ", ticket.reason, "\n">>
          \o (IF ticket.is_auto_approved THEN <<"auto approved\n">> ELSE <<>>)
     ELSE IF phase = "approval"
     THEN IF ticket.is_approved = "True"
          THEN <<"Reason: ", ticket.reason, "\n">>
          ELSE IF ticket.reason # ticket.annotation.reason
               THEN <<"Reject reason: ", ticket.reason>>
               ELSE <<>>
     ELSE <<>>)

\* LarkWebhookNotification.render, the title
LarkTitle ==
    IF phase = "request"
    THEN <<"[helpdesk]", ticket.submitter, "  requested to ", ticket.title>>
    ELSE IF phase = "approval"
    THEN <<"[helpdesk approved]", ticket.submitter, "'s request to ", ticket.title,
           IF ticket.is_approved = "True" THEN " was approved by " ELSE " was rejected by ",
           ticket.confirmed_by>>
    ELSE IF phase = "mark"
    THEN <<"[helpdesk approved]", ticket.submitter, "'s request to ", ticket.title,
           " was marked ", ticket.status>>
    ELSE <<"[helpdesk]", ticket.submitter, "  ", phase, "ed ", ticket.title>>

Button(text, type, path) ==
    [tag |-> "button", text |-> text, type |-> type, url |-> <<ticket.web_url, path>>]

\* mutant of LarkActionElements: is_auto_approved is not tested
LarkActionElementsAnyRequest ==
    IF phase = "request"
    THEN <<[tag |-> "action",
            actions |-> <<Button("Approve", "primary", "/approve"),
                          Button("Reject", "danger", "/reject")>>]>>
    ELSE <<>>

\* the elements appended to msg["elements"] after the markdown element
LarkActionElements ==
    IF phase = "request" /\ ~ticket.is_auto_approved
    THEN <<[tag |-> "action",
            actions |-> <<Button("Approve", "primary", "/approve"),
                          Button("Reject", "danger", "/reject")>>]>>
    ELSE <<>>

\* mutant of LarkConfigured: the URL is not tested
LarkAlwaysConfigured == TRUE

LarkConfigured == cfg.LARK_WEBHOOK_URL # ""

\* if not LARK_WEBHOOK_URL: return; title, content = self.render(); msg = {...}
LarkRender ==
    /\ cls = "LarkWebhookNotification" /\ pc = "start"
    /\ IF ~LarkConfigured
       THEN pc' = "returned" /\ UNCHANGED <<title, content, msg, calls>>
       ELSE /\ Called("render")
            /\ title' = LarkTitle /\ content' = LarkContent
            /\ msg' = [kind |-> "card", header |-> LarkTitle, markdown |-> LarkContent,
                       elements |-> LarkActionElements]
            /\ pc' = "post"
    /\ UNCHANGED <<cls, phase, ticket, env, cfg, addrs, resp, smtp, error>>

\* mutant of LarkOutcome: the else branch does not report
LarkOutcomeNeverReports(r) ==
    IF r.status_code = 200
    THEN IF r.body = "not_json" THEN "JSONDecodeError"
         ELSE IF r.body = "no_field" THEN "KeyError"
         ELSE "return"
    ELSE "return"

\* if r.status_code == 200 and r.json()["StatusCode"] == 0: return / else: report()
\* "return", "report" or the exception that r.json() or the subscript raises
LarkOutcome(r) ==
    IF r.status_code = 200
    THEN IF r.body = "not_json" THEN "JSONDecodeError"
         ELSE IF r.body = "no_field" THEN "KeyError"
         ELSE IF r.body = "sc0" THEN "return"
         ELSE "report"
    ELSE "report"

\* what send does with the outcome of a POST
Deliver(r, outcome) ==
    /\ resp' = r
    /\ IF r.transport = "failed"
       THEN Raise("ConnectionError") /\ Called("post")
       ELSE IF outcome = "return"
       THEN pc' = "returned" /\ Called("post") /\ UNCHANGED error
       ELSE IF outcome = "report"
       THEN /\ pc' = "returned"
            /\ calls' = [calls EXCEPT !.post = @ + 1, !.report = @ + 1]
            /\ UNCHANGED error
       ELSE Raise(outcome) /\ Called("post")

\* r = requests.post(LARK_WEBHOOK_URL, json=...) and the test of the response
LarkPost ==
    /\ cls = "LarkWebhookNotification" /\ pc = "post"
    /\ \E r \in Responses : Deliver(r, LarkOutcome(r))
    /\ UNCHANGED <<cls, phase, ticket, env, cfg, addrs, title, content, msg, smtp>>

(* ----------------------- WebhookEventNotification ---------------------- *)
RECURSIVE ScanNodesOffByOne(_, _, _, _)
\* mutant of ScanNodes: next_node is taken at index, not at index + 1
ScanNodesOffByOne(nodes, current_node, index, acc) ==
    IF index > Len(nodes) THEN acc
    ELSE ScanNodesOffByOne(nodes, current_node, index + 1,
            IF current_node = nodes[index].name
            THEN [next_node |-> IF index # Len(nodes) THEN nodes[index].name ELSE "",
                  notify_type |-> nodes[index].node_type]
            ELSE acc)

RECURSIVE ScanNodes(_, _, _, _)
\* for index, node in enumerate(nodes): ... ; index is 1-based here
ScanNodes(nodes, current_node, index, acc) ==
    IF index > Len(nodes) THEN acc
    ELSE ScanNodes(nodes, current_node, index + 1,
            IF current_node = nodes[index].name
            THEN [next_node |-> IF index # Len(nodes) THEN nodes[index + 1].name ELSE "",
                  notify_type |-> nodes[index].node_type]
            ELSE acc)

\* WebhookEventNotification.render
EventMessage ==
    LET found == ScanNodes(ticket.annotation.nodes, ticket.annotation.current_node, 1,
                           [next_node |-> "", notify_type |-> ""])
    IN  [kind |-> "event", phase |-> phase, title |-> ticket.title, ticket_url |-> ticket.web_url,
         status |-> ticket.status, is_approved |-> (ticket.is_approved = "True"),
         submitter |-> ticket.submitter, params |-> ticket.params,
         request_time |-> ticket.created_at, reason |-> ticket.reason,
         current_node |-> ticket.annotation.current_node,
         next_node |-> found.next_node, notify_type |-> found.notify_type]

EventConfigured == cfg.WEBHOOK_EVENT_URL # ""

\* if not WEBHOOK_EVENT_URL: return; message = self.render()
EventRender ==
    /\ cls = "WebhookEventNotification" /\ pc = "start"
    /\ IF ~EventConfigured
       THEN pc' = "returned" /\ UNCHANGED <<msg, calls>>
       ELSE Called("render") /\ msg' = EventMessage /\ pc' = "post"
    /\ UNCHANGED <<cls, phase, ticket, env, cfg, addrs, title, content, resp, smtp, error>>

\* if r.status_code == 200 and r.json()["StatusCode"] == 0: return / else: report()
EventOutcome(r) ==
    IF r.status_code = 200
    THEN IF r.body = "not_json" THEN "JSONDecodeError"
         ELSE IF r.body = "no_field" THEN "KeyError"
         ELSE IF r.body = "sc0" THEN "return"
         ELSE "report"
    ELSE "report"

\* r = requests.post(WEBHOOK_EVENT_URL, message.json()) and the test of the response
EventPost ==
    /\ cls = "WebhookEventNotification" /\ pc = "post"
    /\ \E r \in Responses : Deliver(r, EventOutcome(r))
    /\ UNCHANGED <<cls, phase, ticket, env, cfg, addrs, title, content, msg, smtp>>

(* ------------------------------ Init ----------------------------------- *)
\* the object and its surroundings before send() is called
Fresh ==
    /\ pc = "start" /\ addrs = <<>> /\ title = <<>> /\ content = <<>>
    /\ msg = NoMsg /\ resp = NoResp /\ smtp = "none" /\ calls = NoCalls /\ error = ""

\* a MailNotification with every recipient input in range
InitMailAddrs ==
    /\ cls = "MailNotification" /\ phase \in Phases
    /\ ticket \in {[DefaultTicket EXCEPT !.ccs = c] : c \in SeqsUpTo(Users, MaxCcs)}
    /\ env \in {[DefaultEnv EXCEPT !.policy_approvers = a, !.rule_approvers = r, !.emails = m] :
                   a \in SeqsUpTo({"p", ","}, MaxApproversLen),
                   r \in SeqsUpTo(Users, MaxRuleApprovers), m \in EmailMaps}
    /\ cfg \in {[DefaultCfg EXCEPT !.ADMIN_EMAIL_ADDRS = m] : m \in {<<>>, <<"m">>}}

\* a MailNotification with every template output in range
InitMailRender ==
    /\ cls = "MailNotification" /\ phase \in Phases
    /\ ticket = DefaultTicket
    /\ env \in {[DefaultEnv EXCEPT !.message = m] : m \in Messages}
    /\ cfg = DefaultCfg

\* a MailNotification with every SMTP configuration in range
InitMailSmtp ==
    /\ cls = "MailNotification" /\ phase \in Phases
    /\ ticket = DefaultTicket
    /\ env = DefaultEnv
    /\ cfg \in {[DefaultCfg EXCEPT !.SMTP_SSL = s, !.SMTP_CREDENTIALS = c] :
                   s \in BOOLEAN, c \in {<<>>, <<"u", ":", "p">>}}

InitWebhook ==
    /\ cls = "WebhookNotification" /\ phase \in Phases
    /\ ticket \in {[DefaultTicket EXCEPT !.is_approved = a] : a \in {"True", "False", "None"}}
    /\ env \in {[DefaultEnv EXCEPT !.message = m] : m \in Messages}
    /\ cfg \in {[DefaultCfg EXCEPT !.WEBHOOK_URL = u] : u \in {"", "url"}}

InitLark ==
    /\ cls = "LarkWebhookNotification" /\ phase \in Phases
    /\ ticket \in {[DefaultTicket EXCEPT !.is_approved = a, !.is_auto_approved = aa,
                                         !.reason = r, !.params = p] :
                      a \in {"True", "False", "None"}, aa \in BOOLEAN, r \in {"r1", "r2"},
                      p \in SeqsUpTo({[name |-> "k", value |-> "v"]}, MaxParams)}
    /\ env = DefaultEnv
    /\ cfg \in {[DefaultCfg EXCEPT !.LARK_WEBHOOK_URL = u] : u \in {"", "url"}}

InitEvent ==
    /\ cls = "WebhookEventNotification" /\ phase \in Phases
    /\ ticket \in {[DefaultTicket EXCEPT !.annotation.nodes = n, !.annotation.current_node = c] :
                      n \in NodeSeqs, c \in NodeNames \cup {"D"}}
    /\ env = DefaultEnv
    /\ cfg \in {[DefaultCfg EXCEPT !.WEBHOOK_EVENT_URL = u] : u \in {"", "url"}}

\* Each disjunct ranges over all the inputs of one function (recipients, template
\* output, SMTP configuration, ...) and keeps the inputs it does not read at
\* their default: get_mail_addrs does not read the template, render does not
\* read the recipients.
Init == Fresh /\ (InitMailAddrs \/ InitMailRender \/ InitMailSmtp \/ InitWebhook \/ InitLark \/ InitEvent)

Next ==
    \/ MailGetMailAddrs \/ MailRender \/ MailConnect \/ MailLogin \/ MailSendMessage \/ MailQuit
    \/ WebhookRender \/ WebhookPost
    \/ LarkRender \/ LarkPost
    \/ EventRender \/ EventPost

Spec == Init /\ [][Next]_vars

(* ---------------------------- vocabulary -------------------------------- *)
Done == pc \in {"returned", "raised"}

Is2xx(status) == status >= 200 /\ status < 300

LookupErrors == {"PolicyLookupError", "RuleActionError"}
RenderErrors == {"TemplateNotFound", "ParseError", "TypeError"}

\* the destination URL of a webhook class
UrlOf(c) ==
    IF c = "WebhookNotification" THEN cfg.WEBHOOK_URL
    ELSE IF c = "LarkWebhookNotification" THEN cfg.LARK_WEBHOOK_URL
    ELSE cfg.WEBHOOK_EVENT_URL

InSeq(x, list) == \E i \in 1..Len(list) : list[i] = x

Count(x, list) == Cardinality({i \in 1..Len(list) : list[i] = x})

\* the comma-separated segments of a recipient string; the empty string has none
Segments(s) == IF s = <<>> THEN <<>> ELSE Split(s, ",")

NoEmptySegment(s) == ~InSeq(<<>>, Segments(s))

\* get_mail_addrs has returned
AddrsComputed ==
    cls = "MailNotification" /\ calls.lookup = 1 /\ error \notin LookupErrors

\* render has been called and has returned a (title, content) pair
RenderReturned ==
    cls \in {"MailNotification", "WebhookNotification"}
    /\ calls.render = 1 /\ error \notin RenderErrors

(* ------------------------------ claims --------------------------------- *)

\* C1: whenever MailNotification.send has opened an SMTP session and has
\* returned or raised, the session has been closed by smtp.quit - on success,
\* when send_message fails and when smtp.login fails.
C1_SessionClosedOnEveryExit ==
    (cls = "MailNotification" /\ Done /\ calls.connect = 1 /\ error # "SMTPConnectError")
        => (smtp = "closed" /\ calls.quit = 1)

\* C2: for the Lark and event webhooks with a URL, a response that is non-2xx
\* or whose JSON StatusCode is not 0 makes send return normally with exactly
\* one report(); a 200 response with StatusCode 0 gives no report().
C2_ReportOnceOnRejectedDelivery ==
    (cls \in {"LarkWebhookNotification", "WebhookEventNotification"} /\ resp.transport = "ok")
        => /\ (~Is2xx(resp.status_code) \/ resp.body = "sc1")
                => (pc = "returned" /\ calls.report = 1 /\ calls.post = 1)
           /\ (resp.status_code = 200 /\ resp.body = "sc0")
                => (pc = "returned" /\ calls.report = 0)

C2_Witness ==
    /\ cls = "WebhookEventNotification" /\ cfg.WEBHOOK_EVENT_URL # ""
    /\ resp.transport = "ok" /\ resp.status_code = 500
    /\ pc = "returned" /\ calls.report = 1

\* C3: for the Lark and event webhooks every delivery error, a failed POST and
\* a malformed response body included, is non-fatal: once the POST has been
\* made, send has returned, and an error has been reported.
C3_EveryDeliveryErrorNonFatal ==
    (cls \in {"LarkWebhookNotification", "WebhookEventNotification"} /\ calls.post = 1)
        => /\ pc = "returned"
           /\ (resp.transport = "failed" \/ resp.body \in {"not_json", "no_field"})
                => calls.report = 1

\* C4: a webhook class whose URL is not configured returns from send without a
\* network call, without rendering and without report(), for every phase.
C4_UnconfiguredIsNoOp ==
    (cls # "MailNotification" /\ UrlOf(cls) = "")
        => /\ pc \in {"start", "returned"}
           /\ calls = NoCalls /\ msg = NoMsg /\ resp = NoResp /\ error = ""

C4_Witness ==
    /\ cls = "LarkWebhookNotification" /\ cfg.LARK_WEBHOOK_URL = ""
    /\ phase = "request" /\ pc = "returned" /\ calls.post = 0

\* C5: Notification.render fails when the template output is unparsable or has
\* no <title> or no <content> element, and a title and content it returns are
\* never empty.
C5_RenderNeverEmpty ==
    /\ RenderReturned => (title # <<>> /\ content # <<>>)
    /\ (cls \in {"MailNotification", "WebhookNotification"} /\ calls.render = 1
        /\ (\/ env.message.kind = "unparsable"
            \/ PieceTexts(env.message.children, "title") = <<>>
            \/ PieceTexts(env.message.children, "content") = <<>>))
        => (pc = "raised" /\ error \in RenderErrors)

C7_NextNode ==
    (cls = "WebhookEventNotification" /\ calls.render = 1)
        => LET nodes == ticket.annotation.nodes
               current == ticket.annotation.current_node
           IN  (\A i, j \in 1..Len(nodes) : nodes[i].name = nodes[j].name => i = j)
                => /\ \A i \in 1..Len(nodes) :
                        nodes[i].name = current
                            => msg.next_node = (IF i < Len(nodes) THEN nodes[i + 1].name ELSE "")
                   /\ (\A i \in 1..Len(nodes) : nodes[i].name # current) => msg.next_node = ""

C7_Witness ==
    /\ cls = "WebhookEventNotification" /\ calls.render = 1
    /\ Len(ticket.annotation.nodes) = 3
    /\ ticket.annotation.nodes[1].name = "A" /\ ticket.annotation.nodes[2].name = "B"
    /\ ticket.annotation.nodes[3].name = "C"
    /\ ticket.annotation.current_node = "B" /\ msg.next_node = "C"

\* C8: the Lark card of the request phase has exactly the two buttons Approve
\* ({web_url}/approve) and Reject ({web_url}/reject) and no "auto approved"
\* line when the ticket is not auto approved, and no button and the "auto
\* approved" line when it is; in every other phase the card has no button.
C8_CardButtons ==
    (cls = "LarkWebhookNotification" /\ calls.render = 1)
        => /\ (phase = "request" /\ ~ticket.is_auto_approved)
                => /\ Len(msg.elements) = 1
                   /\ msg.elements[1].tag = "action"
                   /\ Len(msg.elements[1].actions) = 2
                   /\ msg.elements[1].actions[1].text = "Approve"
                   /\ msg.elements[1].actions[1].url = <<ticket.web_url, "/approve">>
                   /\ msg.elements[1].actions[2].text = "Reject"
                   /\ msg.elements[1].actions[2].url = <<ticket.web_url, "/reject">>
                   /\ ~InSeq("auto approved\n", msg.markdown)
           /\ (phase = "request" /\ ticket.is_auto_approved)
                => (msg.elements = <<>> /\ InSeq("auto approved\n", msg.markdown))
           /\ phase # "request" => msg.elements = <<>>

C8_Witness ==
    /\ cls = "LarkWebhookNotification" /\ calls.post = 1
    /\ phase = "request" /\ ~ticket.is_auto_approved
    /\ Len(msg.elements) = 1 /\ Len(msg.elements[1].actions) = 2

\* C9 as stated: the string get_mail_addrs returns has no empty segment, and
\* the submitter's email is one of its segments exactly when the phase is
\* approval or mark.
C9_SubmitterExactlyInApprovalOrMark ==
    AddrsComputed
        => /\ NoEmptySegment(addrs)
           /\ InSeq(get_user_email(ticket.submitter), Segments(addrs))
                <=> phase \in {"approval", "mark"}

\* the recipients other than the submitter's own entry
OtherRecipients ==
    <<cfg.ADMIN_EMAIL_ADDRS>> \o [i \in 1..Len(ticket.ccs) |-> env.emails[ticket.ccs[i]]]
    \o Split(env.policy_approvers, ",")
    \o [i \in 1..Len(env.rule_approvers) |-> env.emails[env.rule_approvers[i]]]

\* C9 amended: the string get_mail_addrs returns has no empty segment; the
\* submitter's email is appended as the last segment exactly when the phase is
\* approval or mark and the email is not empty, and otherwise it is a segment
\* only if it is also the address of another recipient.
C9_SubmitterAppendedInApprovalOrMark ==
    AddrsComputed
        => LET e == env.emails[ticket.submitter]
               segs == Segments(addrs)
               appended == phase \in {"approval", "mark"} /\ e # <<>>
               others == Len(OtherRecipients) - Count(<<>>, OtherRecipients)
           IN  /\ NoEmptySegment(addrs)
               /\ Len(segs) = others + (IF appended THEN 1 ELSE 0)
               /\ appended => segs[Len(segs)] = e
               /\ ~appended => (InSeq(e, segs) <=> (e # <<>> /\ InSeq(e, OtherRecipients)))

C9_Witness ==
    /\ AddrsComputed /\ phase = "approval"
    /\ cfg.ADMIN_EMAIL_ADDRS = <<>> /\ env.policy_approvers = <<",", "p">>
    /\ ticket.ccs = <<"u2">> /\ env.emails["u2"] = <<>> /\ env.emails["u1"] = <<"a">>
    /\ addrs = <<"p", ",", "a">>

\* C10: in MailNotification.send an SMTP session exists only after
\* get_mail_addrs and render have returned; when a lookup or render fails the
\* failure is raised, no session was opened and no message was sent.
C10_LookupAndRenderBeforeSmtp ==
    cls = "MailNotification"
        => /\ (smtp # "none" \/ calls.connect > 0)
                => (calls.lookup = 1 /\ calls.render = 1 /\ error \notin LookupErrors \cup RenderErrors)
           /\ error \in LookupErrors \cup RenderErrors
                => (pc = "raised" /\ smtp = "none" /\ calls.connect = 0 /\ calls.send_message = 0)

C10_Witness ==
    /\ cls = "MailNotification" /\ pc = "raised" /\ error = "ParseError"
    /\ calls.render = 1 /\ smtp = "none" /\ calls.send_message = 0

====
